---- MODULE Spec2Model ----
(***************************************************************************)
(* Model of src/standard/buffer.rs: the bound check `check_len` and the   *)
(* command builder `BufferCmd` (configuration calls, `enq`, `enq_map`).   *)
(***************************************************************************)
EXTENDS Integers, Sequences, FiniteSets, TLC

VARIABLES
    bc,         \* the live BufferCmd (struct BufferCmd, buffer.rs:230-240)
    phase,      \* "config": builder live; "done": consumed by enq/enq_map;
                \* "aborted": a call panicked and the process is gone
    result,     \* outcome of the consuming call: "none", "Ok", "ErrLocal",
                \* "ErrRuntime" (error returned by the core enqueue call)
    panicked,   \* name of the call that panicked, "" when none did
    submitted,  \* requests handed to core::enqueue_* by this builder
    h,          \* history of the calls made on this builder
    buf_len,    \* Buffer.len of the entity the builders come from
    cl,         \* arguments and outcome of a direct call of check_len
    mm,         \* a MappedMem (struct MappedMem, buffer.rs:49-52) and what it did
    sb,         \* arguments and outcome of a call of SubBuffer::new
    bn,         \* a call of Buffer::new, the device buffer and its queue
    es          \* a Buffer, a clone of it and a SubBuffer of it (the entities
                \* builders come from), and which of them made the live builder

vars == <<bc, phase, result, panicked, submitted, h, buf_len, cl, mm, sb, bn, es>>

\* the variables of the entities other than the builder
ext == <<mm, sb, bn, es>>

----------------------------------------------------------------------------
(* Bounds of the model. *)

\* buffer lengths, offsets, slice lengths and `len` arguments range over 0..MaxLen
MaxLen == 2
\* destination offsets of a copy range over 0..MaxDst
MaxDst == 1
\* arguments of the direct check_len calls range over 0..MaxArg
MaxArg == 4

Lens == 0..MaxLen
Args == 0..MaxArg

----------------------------------------------------------------------------
(* Option<T>: None is the empty sequence, Some(x) the one-element sequence. *)

None == <<>>
Some(x) == <<x>>
is_some(o) == o # None
unwrap_or(o, d) == IF o = None THEN d ELSE o[1]
Opt(S) == {None} \cup {Some(x) : x \in S}

Queues == {"q0", "q1"}
\* Buffer.queue: the default queue every builder starts with
DefaultQueue == "q0"
WaitLists == {"wl"}
EventSlots == {"ev"}
MapFlagsSet == {"MAP_READ"}
\* the seven arguments of rect(..), taken as one value
RectArgs == {"r1", "r2"}

----------------------------------------------------------------------------
(* fn check_len(mem_len, data_len, offset) -> OclResult<()>                *)
(* `ok` is TRUE for Ok(()); `sub` tells whether `mem_len - offset` was     *)
(* evaluated, and whether it was evaluated with mem_len < offset (usize    *)
(* underflow).                                                             *)

check_len_gt(mem_len, data_len, offset) ==
    IF offset > mem_len
    THEN [ok |-> FALSE, sub |-> "skipped"]
    ELSE IF data_len > (mem_len - offset)
    THEN [ok |-> FALSE, sub |-> "evaluated"]
    ELSE [ok |-> TRUE, sub |-> "evaluated"]

check_len(mem_len, data_len, offset) ==
    IF offset >= mem_len
    THEN [ok |-> FALSE, sub |-> "skipped"]
    ELSE IF data_len > (mem_len - offset)
    THEN [ok |-> FALSE, sub |-> "evaluated"]
    ELSE [ok |-> TRUE, sub |-> "evaluated"]

----------------------------------------------------------------------------
(* enum BufferCmdKind *)

Unspecified == [tag |-> "Unspecified"]
Read(data_len) == [tag |-> "Read", data_len |-> data_len]
Write(data_len) == [tag |-> "Write", data_len |-> data_len]
Map(flags, len) == [tag |-> "Map", flags |-> flags, len |-> len]
Copy(dst_offset, len) == [tag |-> "Copy", dst_offset |-> dst_offset, len |-> len]
Fill(len) == [tag |-> "Fill", len |-> len]
CopyToImage == [tag |-> "CopyToImage"]
GLAcquire == [tag |-> "GLAcquire"]
GLRelease == [tag |-> "GLRelease"]

is_unspec(kind) == kind.tag = "Unspecified"

(* enum BufferCmdDataShape *)
Lin(offset) == [tag |-> "Lin", offset |-> offset]
Rect(r) == [tag |-> "Rect", rect |-> r]

(* BufferCmd::new(queue, obj_core, mem_len) *)
new(queue, obj_core, mem_len) ==
    [queue |-> queue, obj_core |-> obj_core, block |-> TRUE, lock_block |-> FALSE,
     kind |-> Unspecified, shape |-> Lin(0), ewait |-> None, enew |-> None,
     mem_len |-> mem_len]

\* no call made yet on the builder
NoHistory ==
    [selector |-> "none", selector_calls |-> 0, kind_sets |-> 0, entry |-> "none",
     block_called |-> FALSE, had_offset |-> FALSE, had_rect |-> FALSE]

NoCheck == [mem_len |-> 0, data_len |-> 0, offset |-> 0, ret |-> "none", sub |-> "none"]

\* no MappedMem, SubBuffer::new call or Buffer::new call under way
NoMapped ==
    [scope |-> "none", is_unmapped |-> FALSE, delayed_unmap |-> None, ret |-> "none",
     panicked |-> "", n_req |-> 0, n_ok |-> 0, last_req |-> None,
     last |-> [op |-> "none", w |-> None, e |-> None]]
NoSub == [ret |-> "none"]
NoBuf == [pc |-> "none"]
NoEntities == [owner |-> "none"]

Init ==
    /\ mm = NoMapped
    /\ sb = NoSub
    /\ bn = NoBuf
    /\ buf_len \in Lens
    /\ es = NoEntities
    /\ bc = new(DefaultQueue, "mem", buf_len)
    /\ phase = "config"
    /\ result = "none"
    /\ panicked = ""
    /\ submitted = <<>>
    /\ h = NoHistory
    /\ cl = NoCheck

InitCheckLen ==
    /\ mm = NoMapped
    /\ sb = NoSub
    /\ bn = NoBuf
    /\ buf_len = 0
    /\ es = NoEntities
    /\ bc = new(DefaultQueue, "mem", buf_len)
    /\ phase = "config"
    /\ result = "none"
    /\ panicked = ""
    /\ submitted = <<>>
    /\ h = NoHistory
    /\ cl \in [mem_len : Args, data_len : Args, offset : Args,
               ret : {"none"}, sub : {"none"}]

\* a direct call check_len(cl.mem_len, cl.data_len, cl.offset)
CallCheckLen ==
    /\ cl.ret = "none"
    /\ LET r == check_len(cl.mem_len, cl.data_len, cl.offset)
       IN cl' = [cl EXCEPT !.ret = IF r.ok THEN "Ok" ELSE "Err", !.sub = r.sub]
    /\ UNCHANGED <<bc, phase, result, panicked, submitted, h, buf_len, ext>>

SpecCheckLen == InitCheckLen /\ [][CallCheckLen]_vars

----------------------------------------------------------------------------
(* Outcomes of a call on the builder. *)

\* the call returns the builder with its fields set to nb
Accept(nb) ==
    /\ bc' = nb
    /\ UNCHANGED <<phase, result, panicked, submitted, buf_len, cl, ext>>

\* panic!/assert! failure in the call `name`: the process aborts
Panic(name) ==
    /\ phase' = "aborted"
    /\ panicked' = name
    /\ UNCHANGED <<bc, result, submitted, buf_len, cl, ext>>

\* history after a kind selector `name` assigned the kind / after its assert failed
Selected(name) ==
    [h EXCEPT !.selector = name, !.selector_calls = @ + 1, !.kind_sets = @ + 1]
Rejected == [h EXCEPT !.selector_calls = @ + 1]

----------------------------------------------------------------------------
(* Configuration calls of BufferCmd. *)

\* as queue, with q installed as the default queue of the Buffer as well
queue_installs(q) ==
    /\ phase = "config"
    /\ bc' = [bc EXCEPT !.queue = q]
    /\ es' = [es EXCEPT !.buffer.queue = q]
    /\ h' = h
    /\ UNCHANGED <<phase, result, panicked, submitted, buf_len, cl, mm, sb, bn>>

queue(q) ==
    /\ phase = "config"
    /\ Accept([bc EXCEPT !.queue = q])
    /\ h' = h

block_unlocked(b) ==
    /\ phase = "config"
    /\ h' = [h EXCEPT !.block_called = TRUE]
    /\ Accept([bc EXCEPT !.block = b])

block(b) ==
    /\ phase = "config"
    /\ h' = [h EXCEPT !.block_called = TRUE]
    /\ IF ~b /\ bc.lock_block
       THEN Panic("block")
       ELSE Accept([bc EXCEPT !.block = b])

offset(n) ==
    /\ phase = "config"
    /\ IF bc.shape.tag = "Rect"
       THEN Panic("offset") /\ h' = h
       ELSE /\ Accept([bc EXCEPT !.shape = Lin(n)])
            /\ h' = [h EXCEPT !.had_offset = @ \/ (n # 0)]

rect_unchecked(r) ==
    /\ phase = "config"
    /\ Accept([bc EXCEPT !.shape = Rect(r)])
    /\ h' = [h EXCEPT !.had_rect = TRUE]

rect(r) ==
    /\ phase = "config"
    /\ IF bc.shape.tag = "Lin" /\ bc.shape.offset # 0
       THEN Panic("rect") /\ h' = h
       ELSE /\ Accept([bc EXCEPT !.shape = Rect(r)])
            /\ h' = [h EXCEPT !.had_rect = TRUE]

\* as ewait, with the event slot cleared as well
ewait_clears_enew(w) ==
    /\ phase = "config"
    /\ Accept([bc EXCEPT !.ewait = Some(w), !.enew = None])
    /\ h' = h

ewait(w) ==
    /\ phase = "config"
    /\ Accept([bc EXCEPT !.ewait = Some(w)])
    /\ h' = h

ewait_opt(o) ==
    /\ phase = "config"
    /\ Accept([bc EXCEPT !.ewait = o])
    /\ h' = h

enew(e) ==
    /\ phase = "config"
    /\ Accept([bc EXCEPT !.enew = Some(e)])
    /\ h' = h

enew_opt(o) ==
    /\ phase = "config"
    /\ Accept([bc EXCEPT !.enew = o])
    /\ h' = h

----------------------------------------------------------------------------
(* Operation-kind selectors of BufferCmd. *)

read(data_len) ==
    /\ phase = "config"
    /\ IF is_unspec(bc.kind)
       THEN /\ Accept([bc EXCEPT !.kind = Read(data_len), !.block = TRUE,
                                 !.lock_block = TRUE])
            /\ h' = Selected("read")
       ELSE Panic("read") /\ h' = Rejected

read_async(data_len) ==
    /\ phase = "config"
    /\ IF is_unspec(bc.kind)
       THEN /\ Accept([bc EXCEPT !.kind = Read(data_len)])
            /\ h' = Selected("read_async")
       ELSE Panic("read_async") /\ h' = Rejected

write_unchecked(data_len) ==
    /\ phase = "config"
    /\ Accept([bc EXCEPT !.kind = Write(data_len)])
    /\ h' = Selected("write")

write(data_len) ==
    /\ phase = "config"
    /\ IF is_unspec(bc.kind)
       THEN /\ Accept([bc EXCEPT !.kind = Write(data_len)])
            /\ h' = Selected("write")
       ELSE Panic("write") /\ h' = Rejected

map(flags, len) ==
    /\ phase = "config"
    /\ IF is_unspec(bc.kind)
       THEN /\ Accept([bc EXCEPT !.kind = Map(flags, len)])
            /\ h' = Selected("map")
       ELSE Panic("map") /\ h' = Rejected

copy(dst_offset, len) ==
    /\ phase = "config"
    /\ IF is_unspec(bc.kind)
       THEN /\ Accept([bc EXCEPT !.kind = Copy(dst_offset, len)])
            /\ h' = Selected("copy")
       ELSE Panic("copy") /\ h' = Rejected

copy_to_image ==
    /\ phase = "config"
    /\ IF is_unspec(bc.kind)
       THEN /\ Accept([bc EXCEPT !.kind = CopyToImage])
            /\ h' = Selected("copy_to_image")
       ELSE Panic("copy_to_image") /\ h' = Rejected

gl_acquire ==
    /\ phase = "config"
    /\ IF is_unspec(bc.kind)
       THEN /\ Accept([bc EXCEPT !.kind = GLAcquire])
            /\ h' = Selected("gl_acquire")
       ELSE Panic("gl_acquire") /\ h' = Rejected

gl_release ==
    /\ phase = "config"
    /\ IF is_unspec(bc.kind)
       THEN /\ Accept([bc EXCEPT !.kind = GLRelease])
            /\ h' = Selected("gl_release")
       ELSE Panic("gl_release") /\ h' = Rejected

fill(len) ==
    /\ phase = "config"
    /\ IF is_unspec(bc.kind)
       THEN /\ Accept([bc EXCEPT !.kind = Fill(len)])
            /\ h' = Selected("fill")
       ELSE Panic("fill") /\ h' = Rejected

----------------------------------------------------------------------------
(* The requests handed to the core enqueue functions.  A field that the    *)
(* core function does not take is None.                                    *)

Request(op, block_, offset_, len_, dst_offset_, rect_, flags_) ==
    [op |-> op, queue |-> bc.queue, obj_core |-> bc.obj_core, block |-> block_,
     offset |-> offset_, len |-> len_, dst_offset |-> dst_offset_, rect |-> rect_,
     flags |-> flags_, ewait |-> bc.ewait, enew |-> bc.enew]

\* the call reaches core::enqueue_*(..): one request is handed to the queue
\* and the runtime's result (Ok or its own error) is returned
Submit(req) ==
    /\ submitted' = Append(submitted, req)
    /\ result' \in {"Ok", "ErrRuntime"}
    /\ phase' = "done"
    /\ panicked' = panicked

\* the call returns OclError::err(..) before any core call
LocalErr ==
    /\ submitted' = submitted
    /\ result' = "ErrLocal"
    /\ phase' = "done"
    /\ panicked' = panicked

\* unimplemented!()
Unimplemented(name) ==
    /\ submitted' = submitted
    /\ result' = result
    /\ phase' = "aborted"
    /\ panicked' = name

(* The arms of `match self.kind` in BufferCmd::enq(self). *)

enq_read(k, s) ==
    IF s.tag = "Lin"
    THEN IF check_len(bc.mem_len, k.data_len, s.offset).ok
         THEN Submit(Request("read_buffer", Some(bc.block), Some(s.offset),
                             Some(k.data_len), None, None, None))
         ELSE LocalErr
    ELSE Submit(Request("read_buffer_rect", Some(bc.block), None,
                        Some(k.data_len), None, Some(s.rect), None))

enq_write(k, s) ==
    IF s.tag = "Lin"
    THEN IF check_len(bc.mem_len, k.data_len, s.offset).ok
         THEN Submit(Request("write_buffer", Some(bc.block), Some(s.offset),
                             Some(k.data_len), None, None, None))
         ELSE LocalErr
    ELSE Submit(Request("write_buffer_rect", Some(bc.block), None,
                        Some(k.data_len), None, Some(s.rect), None))

\* as enq_copy, with Some(0) taken for None in the rectangular check
enq_copy_zero_is_none(k, s) ==
    IF s.tag = "Lin"
    THEN LET len == unwrap_or(k.len, bc.mem_len)
         IN IF check_len(bc.mem_len, len, s.offset).ok
            THEN Submit(Request("copy_buffer", None, Some(s.offset), Some(len),
                                Some(unwrap_or(k.dst_offset, 0)), None, None))
            ELSE LocalErr
    ELSE IF unwrap_or(k.dst_offset, 0) # 0 \/ unwrap_or(k.len, 0) # 0
         THEN LocalErr
         ELSE Submit(Request("copy_buffer_rect", None, None, None, None,
                             Some(s.rect), None))

\* as enq_copy, with the linear check made against the destination offset
enq_copy_checks_dst(k, s) ==
    IF s.tag = "Lin"
    THEN LET len == unwrap_or(k.len, bc.mem_len)
         IN IF check_len(bc.mem_len, len, unwrap_or(k.dst_offset, 0)).ok
            THEN Submit(Request("copy_buffer", None, Some(s.offset), Some(len),
                                Some(unwrap_or(k.dst_offset, 0)), None, None))
            ELSE LocalErr
    ELSE IF is_some(k.dst_offset) \/ is_some(k.len)
         THEN LocalErr
         ELSE Submit(Request("copy_buffer_rect", None, None, None, None,
                             Some(s.rect), None))

enq_copy(k, s) ==
    IF s.tag = "Lin"
    THEN LET len == unwrap_or(k.len, bc.mem_len)
         IN IF check_len(bc.mem_len, len, s.offset).ok
            THEN Submit(Request("copy_buffer", None, Some(s.offset), Some(len),
                                Some(unwrap_or(k.dst_offset, 0)), None, None))
            ELSE LocalErr
    ELSE IF is_some(k.dst_offset) \/ is_some(k.len)
         THEN LocalErr
         ELSE Submit(Request("copy_buffer_rect", None, None, None, None,
                             Some(s.rect), None))

\* as enq_fill, with the remainder after the offset taken for an unset len
enq_fill_remainder(k, s) ==
    IF s.tag = "Lin"
    THEN LET len == IF is_some(k.len) THEN k.len[1]
                    ELSE IF s.offset <= bc.mem_len THEN bc.mem_len - s.offset ELSE 0
         IN IF check_len(bc.mem_len, len, s.offset).ok
            THEN Submit(Request("fill_buffer", None, Some(s.offset), Some(len),
                                None, None, None))
            ELSE LocalErr
    ELSE LocalErr

enq_fill(k, s) ==
    IF s.tag = "Lin"
    THEN LET len == IF is_some(k.len) THEN k.len[1] ELSE bc.mem_len
         IN IF check_len(bc.mem_len, len, s.offset).ok
            THEN Submit(Request("fill_buffer", None, Some(s.offset), Some(len),
                                None, None, None))
            ELSE LocalErr
    ELSE LocalErr

enq_gl_acquire ==
    Submit(Request("acquire_gl_buffer", None, None, None, None, None, None))

enq_gl_release ==
    Submit(Request("release_gl_buffer", None, None, None, None, None, None))

\* BufferCmdKind::Unspecified => OclError::err(..)
enq_unspecified == LocalErr

\* as enq_on_map, with the map request submitted from the general entry point
enq_on_map_submits ==
    Submit(Request("map_buffer", Some(bc.block), None, None, None, None, None))

\* BufferCmdKind::Map { .. } => OclError::err(..)
enq_on_map == LocalErr

\* _ => unimplemented!()   (the arm BufferCmdKind::CopyToImage falls into)
enq_other == Unimplemented("enq")

(* BufferCmd::enq(self) *)
enq ==
    /\ phase = "config"
    /\ h' = [h EXCEPT !.entry = "enq"]
    /\ UNCHANGED <<bc, buf_len, cl, ext>>
    /\ LET k == bc.kind
           s == bc.shape
       IN CASE k.tag = "Read" -> enq_read(k, s)
            [] k.tag = "Write" -> enq_write(k, s)
            [] k.tag = "Copy" -> enq_copy(k, s)
            [] k.tag = "Fill" -> enq_fill(k, s)
            [] k.tag = "GLAcquire" -> enq_gl_acquire
            [] k.tag = "GLRelease" -> enq_gl_release
            [] k.tag = "Unspecified" -> enq_unspecified
            [] k.tag = "Map" -> enq_on_map
            [] OTHER -> enq_other

(* BufferCmd::enq_map(self) *)
enq_map ==
    /\ phase = "config"
    /\ h' = [h EXCEPT !.entry = "enq_map"]
    /\ UNCHANGED <<bc, buf_len, cl, ext>>
    /\ LET k == bc.kind
           s == bc.shape
       IN CASE k.tag = "Map" ->
                IF s.tag = "Lin"
                THEN LET len == IF is_some(k.len) THEN k.len[1] ELSE bc.mem_len
                     IN IF check_len(bc.mem_len, len, s.offset).ok
                        THEN Submit(Request("map_buffer", Some(bc.block), Some(s.offset),
                                            Some(len), None, None,
                                            Some(unwrap_or(k.flags, "empty"))))
                        ELSE LocalErr
                ELSE LocalErr
            [] k.tag = "Unspecified" -> LocalErr
            [] OTHER -> LocalErr

(* Buffer::cmd(&self): the next builder, once the previous one is consumed *)
cmd ==
    /\ phase = "done"
    /\ bc' = new(DefaultQueue, "mem", buf_len)
    /\ phase' = "config"
    /\ result' = "none"
    /\ submitted' = <<>>
    /\ h' = NoHistory
    /\ UNCHANGED <<panicked, buf_len, cl, ext>>

----------------------------------------------------------------------------

Next ==
    \/ \E q \in Queues : queue(q)
    \/ \E b \in BOOLEAN : block(b)
    \/ \E n \in Lens : offset(n)
    \/ \E r \in RectArgs : rect(r)
    \/ \E w \in WaitLists : ewait(w)
    \/ \E o \in Opt(WaitLists) : ewait_opt(o)
    \/ \E e \in EventSlots : enew(e)
    \/ \E o \in Opt(EventSlots) : enew_opt(o)
    \/ \E n \in Lens : read(n)
    \/ \E n \in Lens : read_async(n)
    \/ \E n \in Lens : write(n)
    \/ \E f \in Opt(MapFlagsSet), l \in Opt(Lens) : map(f, l)
    \/ \E d \in Opt(0..MaxDst), l \in Opt(Lens) : copy(d, l)
    \/ copy_to_image
    \/ gl_acquire
    \/ gl_release
    \/ \E l \in Opt(Lens) : fill(l)
    \/ enq
    \/ enq_map
    \/ cmd

Spec == Init /\ [][Next]_vars

----------------------------------------------------------------------------
(* MappedMem: the view returned by enq_map.                                *)
(* mm.is_unmapped is core.is_unmapped(); mm.delayed_unmap is the field      *)
(* delayed_unmap (DelayedUnmap::None is None); mm.scope is "live" until    *)
(* the value is dropped ("dropped") or a call on it panics ("aborted");    *)
(* mm.ret is the result of the last explicit unmap(); mm.n_req, mm.n_ok    *)
(* and mm.last_req count and record the unmap requests handed to the core; *)
(* mm.last is the last call made on the value, with its event arguments.   *)

\* explicit unmap() calls are made while fewer than MaxUnmapCalls requests were issued
MaxUnmapCalls == 2

UnmapWaitLists == {"wl", "wl2"}
UnmapEvents == {"ev", "ev2"}
Mems == {"mem"}

(* enum DelayedUnmap *)
DelayedNone == None
DelayedSome(queue_, mem_, ewait_, enew_) ==
    Some([queue |-> queue_, mem |-> mem_, ewait |-> ewait_, enew |-> enew_])

(* MappedMem::new(core) *)
MappedMem_new == [NoMapped EXCEPT !.scope = "live"]

(* MappedMemCore::unmap_mem_object(queue, mem, ewait, enew): one unmap request *)
(* goes to the runtime; when the runtime accepts it (ok) the core marks the    *)
(* view unmapped, otherwise it is left mapped and the error is returned.       *)
unmap_mem_object(m, req, ok) ==
    [m EXCEPT !.is_unmapped = IF ok THEN TRUE ELSE @,
              !.n_req = @ + 1,
              !.n_ok = IF ok THEN @ + 1 ELSE @,
              !.last_req = Some(req)]

BuilderIdle == UNCHANGED <<bc, phase, result, panicked, submitted, h, buf_len, cl>>

\* mm with the call being made recorded (history)
Called(op, w, e) == [mm EXCEPT !.last = [op |-> op, w |-> w, e |-> e]]

(* MappedMem::unmap_later(queue, mem, wait_list, new_event) *)
unmap_later(q, m, w, e) ==
    /\ mm.scope = "live"
    /\ mm' = [Called("unmap_later", w, e) EXCEPT !.delayed_unmap = DelayedSome(q, m, w, e)]
    /\ BuilderIdle /\ UNCHANGED <<sb, bn, es>>

\* as set_unmap_events, with both fields assigned whatever the arguments are
set_unmap_events_overwrite(w, e) ==
    /\ mm.scope = "live"
    /\ IF mm.is_unmapped \/ mm.delayed_unmap = DelayedNone
       THEN mm' = [Called("set_unmap_events", w, e) EXCEPT !.scope = "aborted", !.panicked = "set_unmap_events"]
       ELSE mm' = [Called("set_unmap_events", w, e) EXCEPT !.delayed_unmap[1].ewait = w,
                             !.delayed_unmap[1].enew = e]
    /\ BuilderIdle /\ UNCHANGED <<sb, bn, es>>

\* as set_unmap_events, returning without a panic when there is no delayed unmap
set_unmap_events_lenient(w, e) ==
    /\ mm.scope = "live"
    /\ IF mm.is_unmapped
       THEN mm' = [Called("set_unmap_events", w, e) EXCEPT !.scope = "aborted", !.panicked = "set_unmap_events"]
       ELSE IF mm.delayed_unmap # DelayedNone
       THEN mm' = [Called("set_unmap_events", w, e) EXCEPT
                !.delayed_unmap[1].ewait = IF is_some(w) THEN w ELSE @,
                !.delayed_unmap[1].enew = IF is_some(e) THEN e ELSE @]
       ELSE mm' = Called("set_unmap_events", w, e)
    /\ BuilderIdle /\ UNCHANGED <<sb, bn, es>>

\* as set_unmap_events, without the assertion that the value is still mapped
set_unmap_events_unasserted(w, e) ==
    /\ mm.scope = "live"
    /\ IF mm.delayed_unmap # DelayedNone
       THEN mm' = [Called("set_unmap_events", w, e) EXCEPT
                !.delayed_unmap[1].ewait = IF is_some(w) THEN w ELSE @,
                !.delayed_unmap[1].enew = IF is_some(e) THEN e ELSE @]
       ELSE mm' = [Called("set_unmap_events", w, e) EXCEPT !.scope = "aborted", !.panicked = "set_unmap_events"]
    /\ BuilderIdle /\ UNCHANGED <<sb, bn, es>>

(* MappedMem::set_unmap_events(wait_list, new_event) *)
set_unmap_events(w, e) ==
    /\ mm.scope = "live"
    /\ IF mm.is_unmapped
       THEN mm' = [Called("set_unmap_events", w, e) EXCEPT !.scope = "aborted", !.panicked = "set_unmap_events"]
       ELSE IF mm.delayed_unmap # DelayedNone
       THEN mm' = [Called("set_unmap_events", w, e) EXCEPT
                !.delayed_unmap[1].ewait = IF is_some(w) THEN w ELSE @,
                !.delayed_unmap[1].enew = IF is_some(e) THEN e ELSE @]
       ELSE mm' = [Called("set_unmap_events", w, e) EXCEPT !.scope = "aborted", !.panicked = "set_unmap_events"]
    /\ BuilderIdle /\ UNCHANGED <<sb, bn, es>>

\* as unmap, without the is_unmapped guard
unmap_unguarded ==
    /\ mm.scope = "live"
    /\ mm.n_req < MaxUnmapCalls
    /\ IF mm.delayed_unmap # DelayedNone
       THEN \E ok \in BOOLEAN :
                mm' = [unmap_mem_object(Called("unmap", None, None), mm.delayed_unmap[1], ok)
                           EXCEPT !.ret = IF ok THEN "Ok" ELSE "Err"]
       ELSE mm' = [Called("unmap", None, None) EXCEPT !.ret = "Err"]
    /\ BuilderIdle /\ UNCHANGED <<sb, bn, es>>

\* as unmap, with Ok(()) returned when there is no delayed unmap
unmap_none_ok ==
    /\ mm.scope = "live"
    /\ mm.n_req < MaxUnmapCalls
    /\ IF mm.is_unmapped
       THEN mm' = [Called("unmap", None, None) EXCEPT !.ret = "Err"]
       ELSE IF mm.delayed_unmap # DelayedNone
       THEN \E ok \in BOOLEAN :
                mm' = [unmap_mem_object(Called("unmap", None, None), mm.delayed_unmap[1], ok)
                           EXCEPT !.ret = IF ok THEN "Ok" ELSE "Err"]
       ELSE mm' = [Called("unmap", None, None) EXCEPT !.ret = "Ok"]
    /\ BuilderIdle /\ UNCHANGED <<sb, bn, es>>

(* MappedMem::unmap(&mut self) *)
unmap ==
    /\ mm.scope = "live"
    /\ mm.n_req < MaxUnmapCalls
    /\ IF mm.is_unmapped
       THEN mm' = [Called("unmap", None, None) EXCEPT !.ret = "Err"]
       ELSE IF mm.delayed_unmap # DelayedNone
       THEN \E ok \in BOOLEAN :
                mm' = [unmap_mem_object(Called("unmap", None, None), mm.delayed_unmap[1], ok)
                           EXCEPT !.ret = IF ok THEN "Ok" ELSE "Err"]
       ELSE mm' = [Called("unmap", None, None) EXCEPT !.ret = "Err"]
    /\ BuilderIdle /\ UNCHANGED <<sb, bn, es>>

\* as drop, without the is_unmapped guard
drop_unguarded ==
    /\ mm.scope = "live"
    /\ IF mm.delayed_unmap # DelayedNone
       THEN \E ok \in BOOLEAN :
                mm' = [unmap_mem_object(Called("drop", None, None), mm.delayed_unmap[1], ok)
                           EXCEPT !.scope = IF ok THEN "dropped" ELSE "aborted",
                                  !.panicked = IF ok THEN @ ELSE "drop"]
       ELSE mm' = [Called("drop", None, None) EXCEPT !.scope = "dropped"]
    /\ BuilderIdle /\ UNCHANGED <<sb, bn, es>>

(* impl Drop for MappedMem: drop(&mut self) *)
drop ==
    /\ mm.scope = "live"
    /\ IF mm.is_unmapped
       THEN mm' = [Called("drop", None, None) EXCEPT !.scope = "dropped"]
       ELSE IF mm.delayed_unmap # DelayedNone
       THEN \E ok \in BOOLEAN :
                mm' = [unmap_mem_object(Called("drop", None, None), mm.delayed_unmap[1], ok)
                           EXCEPT !.scope = IF ok THEN "dropped" ELSE "aborted",
                                  !.panicked = IF ok THEN @ ELSE "drop"]
       ELSE mm' = [Called("drop", None, None) EXCEPT !.scope = "dropped"]
    /\ BuilderIdle /\ UNCHANGED <<sb, bn, es>>

\* the state after a successful cmd().map(None, None).enq_map()
InitMap ==
    /\ buf_len = 1
    /\ es = NoEntities
    /\ bc = [new(DefaultQueue, "mem", buf_len) EXCEPT !.kind = Map(None, None)]
    /\ phase = "done"
    /\ result = "Ok"
    /\ panicked = ""
    /\ submitted = <<[op |-> "map_buffer", queue |-> bc.queue, obj_core |-> bc.obj_core,
                      block |-> Some(bc.block), offset |-> Some(0), len |-> Some(buf_len),
                      dst_offset |-> None, rect |-> None, flags |-> Some("empty"),
                      ewait |-> bc.ewait, enew |-> bc.enew]>>
    /\ h = [NoHistory EXCEPT !.selector = "map", !.selector_calls = 1,
                             !.kind_sets = 1, !.entry = "enq_map"]
    /\ cl = NoCheck
    /\ mm = MappedMem_new
    /\ sb = NoSub
    /\ bn = NoBuf

NextMap ==
    \/ \E q \in Queues, m \in Mems, w \in Opt(UnmapWaitLists), e \in Opt(UnmapEvents) :
           unmap_later(q, m, w, e)
    \/ \E w \in Opt(UnmapWaitLists), e \in Opt(UnmapEvents) : set_unmap_events(w, e)
    \/ unmap
    \/ drop

SpecMap == InitMap /\ [][NextMap]_vars

----------------------------------------------------------------------------
(* SubBuffer::new(buffer, flags_opt, origin, size).                        *)
(* Lengths are usize values, modelled as WordBits-bit unsigned integers.   *)
(* `origin_len + size_len` overflows when the true sum exceeds UsizeMax:   *)
(* a build with overflow checks panics there, a build without wraps.       *)

\* width of usize in the model
WordBits == 3

UsizeMax == 2^WordBits - 1
Usize == 0..UsizeMax

\* a + b in usize
usize_add(a, b) == [val |-> (a + b) % (UsizeMax + 1), overflow |-> a + b > UsizeMax]

MemFlagsSet == {"MEM_READ_ONLY"}

SubBuffer_new ==
    /\ sb.ret = "none"
    /\ LET flags == unwrap_or(sb.flags_opt, "MEM_READ_WRITE")
           buffer_len == sb.buffer_len
           origin_len == sb.origin_len
           size_len == sb.size_len
           sum == usize_add(origin_len, size_len)
       IN IF origin_len > buffer_len
          THEN sb' = [sb EXCEPT !.ret = "Err"]
          ELSE IF sum.overflow /\ sb.overflow_checks
          THEN sb' = [sb EXCEPT !.ret = "panic"]
          ELSE IF sum.val > buffer_len
          THEN sb' = [sb EXCEPT !.ret = "Err"]
          ELSE \E accepted \in BOOLEAN :
                 \* core::create_sub_buffer(buffer, flags, &BufferRegion::new(..))?
                 sb' = [sb EXCEPT
                     !.region = Some([origin |-> origin_len, size |-> size_len]),
                     !.ret = IF accepted THEN "Ok" ELSE "ErrRuntime",
                     !.sub = IF accepted
                             THEN Some([obj_core |-> "sub_mem", queue |-> DefaultQueue,
                                        origin |-> origin_len, size |-> size_len,
                                        len |-> size_len, flags |-> flags])
                             ELSE None]
    /\ BuilderIdle /\ UNCHANGED <<mm, bn, es>>

\* a call SubBuffer::new(buffer, flags_opt, origin, size) about to be made
InitSub ==
    /\ sb \in [buffer_len : Usize, origin_len : Usize, size_len : Usize,
               flags_opt : Opt(MemFlagsSet), overflow_checks : BOOLEAN,
               ret : {"none"}, region : {None}, sub : {None}]
    /\ buf_len = 0
    /\ es = NoEntities
    /\ bc = new(DefaultQueue, "mem", buf_len)
    /\ phase = "config"
    /\ result = "none"
    /\ panicked = ""
    /\ submitted = <<>>
    /\ h = NoHistory
    /\ cl = NoCheck
    /\ mm = NoMapped
    /\ bn = NoBuf

SpecSub == InitSub /\ [][SubBuffer_new]_vars

----------------------------------------------------------------------------
(* Buffer::new(queue, flags_opt, dims, data) and the device side of it.    *)
(* bn.mem is the content of the device buffer; bn.pending are the commands *)
(* enqueued on the buffer's default queue and not yet executed; an        *)
(* in-order queue (bn.in_order) executes them first to last, an            *)
(* out-of-order queue in any order.                                        *)

Zeros(n) == [i \in 1..n |-> 0]

\* if cfg!(feature = "buffer_no_fill") { fill } else { write }
zero_strategy(feature) == IF feature THEN "fill" ELSE "write"

Buffer_new ==
    /\ bn.pc = "start"
    /\ LET len == bn.len
           b == new(DefaultQueue, "mem", len)
       IN \/ \* core::create_buffer(..) fails
             bn' = [bn EXCEPT !.pc = "returned", !.ret = "Err"]
          \/ \E content \in [1..len -> {0, 1}] :
               IF bn.data
               THEN bn' = [bn EXCEPT !.pc = "returned", !.ret = "Ok",
                                     !.mem = [i \in 1..len |-> 1]]
               ELSE IF ~check_len(b.mem_len, len, b.shape.offset).ok
               THEN bn' = [bn EXCEPT !.pc = "returned", !.ret = "Err", !.mem = content,
                                     !.strategy = zero_strategy(bn.feature)]
               ELSE IF zero_strategy(bn.feature) = "fill"
               THEN \E ok \in BOOLEAN :
                      \* core::enqueue_fill_buffer(..): queued, not waited for
                      bn' = [bn EXCEPT
                          !.pc = "returned", !.ret = IF ok THEN "Ok" ELSE "Err",
                          !.mem = content, !.strategy = "fill",
                          !.pending = IF ok
                                      THEN Append(@, [op |-> "fill_buffer", offset |-> 0,
                                                      len |-> len])
                                      ELSE @]
               ELSE \E ok \in BOOLEAN :
                      \* core::enqueue_write_buffer(.., block, ..): with block the
                      \* call returns once the write has been executed
                      bn' = [bn EXCEPT
                          !.pc = "returned", !.ret = IF ok THEN "Ok" ELSE "Err",
                          !.strategy = "write",
                          !.mem = IF ok /\ b.block THEN Zeros(len) ELSE content,
                          !.pending = IF ok /\ ~b.block
                                      THEN Append(@, [op |-> "write_buffer", offset |-> 0,
                                                      len |-> len])
                                      ELSE @]
    /\ BuilderIdle /\ UNCHANGED <<mm, sb, es>>

\* the buffer content after the command c has been executed
Executed(mem, c) ==
    [i \in 1..Len(mem) |-> IF c.offset < i /\ i <= c.offset + c.len THEN 0 ELSE mem[i]]

Remove(seq, i) == SubSeq(seq, 1, i - 1) \o SubSeq(seq, i + 1, Len(seq))

\* the device executes one pending command of the queue
DeviceStep ==
    /\ bn.pc = "returned"
    /\ \E i \in 1..Len(bn.pending) :
         /\ bn.in_order => i = 1
         /\ bn' = [bn EXCEPT !.mem = Executed(@, bn.pending[i]),
                             !.pending = Remove(@, i)]
    /\ BuilderIdle /\ UNCHANGED <<mm, sb, es>>

RECURSIVE ExecutedAll(_, _)
ExecutedAll(mem, cs) ==
    IF cs = <<>> THEN mem ELSE ExecutedAll(Executed(mem, Head(cs)), Tail(cs))

\* buffer.read(&mut vec).enq() with vec.len() == buffer.len(): a blocking read of
\* the whole buffer on the default queue; on an in-order queue it is executed
\* after every command enqueued before it
ReadBack ==
    /\ bn.pc = "returned"
    /\ bn.ret = "Ok"
    /\ bn.read = None
    /\ check_len(bn.len, bn.len, 0).ok
    /\ IF bn.in_order
       THEN bn' = [bn EXCEPT !.mem = ExecutedAll(@, bn.pending), !.pending = <<>>,
                             !.read = Some(ExecutedAll(bn.mem, bn.pending))]
       ELSE bn' = [bn EXCEPT !.read = Some(bn.mem)]
    /\ BuilderIdle /\ UNCHANGED <<mm, sb, es>>

\* a call Buffer::new(queue, flags_opt, dims, data) about to be made
InitBuf ==
    /\ bn \in [pc : {"start"}, ret : {"none"}, feature : BOOLEAN, len : Lens,
               data : BOOLEAN, in_order : BOOLEAN, mem : {<<>>}, pending : {<<>>},
               strategy : {"none"}, read : {None}]
    /\ buf_len = 0
    /\ es = NoEntities
    /\ bc = new(DefaultQueue, "mem", buf_len)
    /\ phase = "config"
    /\ result = "none"
    /\ panicked = ""
    /\ submitted = <<>>
    /\ h = NoHistory
    /\ cl = NoCheck
    /\ mm = NoMapped
    /\ sb = NoSub

NextBuf ==
    \/ Buffer_new
    \/ DeviceStep
    \/ ReadBack

SpecBuf == InitBuf /\ [][NextBuf]_vars

----------------------------------------------------------------------------
(* The entities builders come from: a Buffer, a clone of it (derive(Clone))*)
(* and a SubBuffer of it.  es.installed records, per entity, the queue it  *)
(* was constructed with or that set_default_queue installed last;          *)
(* es.owner is the entity whose cmd() made the live builder.               *)

\* SpatialDims::to_len() of a one-dimensional SpatialDims
to_len(dims) == dims

(* struct Buffer *)
Buffer_struct(obj_core, queue_, dims, flags) ==
    [obj_core |-> obj_core, queue |-> queue_, dims |-> dims, len |-> to_len(dims),
     flags |-> flags]

(* struct SubBuffer, as SubBuffer::new builds it from its parent *)
SubBuffer_struct(parent, flags, origin, size) ==
    [obj_core |-> "sub_mem", queue |-> parent.queue, origin |-> origin, size |-> size,
     len |-> to_len(size), flags |-> flags]

EntityNames == {"buffer", "clone", "sub"}

Exists(who) ==
    CASE who = "buffer" -> TRUE
      [] who = "clone" -> es.clone # None
      [] who = "sub" -> es.sub # None

\* the entity who in the entities e
EntityOf(e, who) ==
    CASE who = "buffer" -> e.buffer
      [] who = "clone" -> e.clone[1]
      [] who = "sub" -> e.sub[1]

Entity(who) == EntityOf(es, who)

\* es with the entity who replaced by e
WithEntity(who, e) ==
    CASE who = "buffer" -> [es EXCEPT !.buffer = e]
      [] who = "clone" -> [es EXCEPT !.clone = Some(e)]
      [] who = "sub" -> [es EXCEPT !.sub = Some(e)]

\* a live builder borrows the entity that made it
Borrowed(who) == phase = "config" /\ es.owner = who

EntityIdle == UNCHANGED <<bc, phase, result, panicked, submitted, h, buf_len, cl, mm, sb, bn>>

(* Buffer::clone(&self) *)
Buffer_clone ==
    /\ es.clone = None
    /\ es' = [es EXCEPT !.clone = Some(es.buffer),
                        !.installed["clone"] = Some(es.buffer.queue)]
    /\ EntityIdle

(* SubBuffer::new(&buffer, None, origin, size) returning Ok *)
SubBuffer_created(origin, size) ==
    /\ es.sub = None
    /\ to_len(origin) <= es.buffer.len
    /\ to_len(origin) + to_len(size) <= es.buffer.len
    /\ es' = [es EXCEPT
           !.sub = Some(SubBuffer_struct(es.buffer, "MEM_READ_WRITE", origin, size)),
           !.installed["sub"] = Some(es.buffer.queue)]
    /\ EntityIdle

\* as set_default_queue, with the queue installed on the parent Buffer as well
set_default_queue_shared(who, q) ==
    /\ Exists(who)
    /\ ~Borrowed(who)
    /\ es' = [[WithEntity(who, [Entity(who) EXCEPT !.queue = q])
                  EXCEPT !.buffer.queue = q]
                  EXCEPT !.installed[who] = Some(q)]
    /\ EntityIdle

(* Buffer::set_default_queue(&mut self, &queue), SubBuffer::set_default_queue(&mut self, queue) *)
set_default_queue(who, q) ==
    /\ Exists(who)
    /\ ~Borrowed(who)
    /\ es' = [WithEntity(who, [Entity(who) EXCEPT !.queue = q])
                  EXCEPT !.installed[who] = Some(q)]
    /\ EntityIdle

\* as entity_cmd, with the builder bound to the first Buffer's queue
entity_cmd_parent_queue(who) ==
    /\ Exists(who)
    /\ phase = "done"
    /\ bc' = new(es.buffer.queue, Entity(who).obj_core, Entity(who).len)
    /\ es' = [es EXCEPT !.owner = who]
    /\ phase' = "config"
    /\ result' = "none"
    /\ submitted' = <<>>
    /\ h' = NoHistory
    /\ UNCHANGED <<panicked, buf_len, cl, mm, sb, bn>>

(* Buffer::cmd(&self), SubBuffer::cmd(&self), once the previous builder is consumed *)
entity_cmd(who) ==
    /\ Exists(who)
    /\ phase = "done"
    /\ bc' = new(Entity(who).queue, Entity(who).obj_core, Entity(who).len)
    /\ es' = [es EXCEPT !.owner = who]
    /\ phase' = "config"
    /\ result' = "none"
    /\ submitted' = <<>>
    /\ h' = NoHistory
    /\ UNCHANGED <<panicked, buf_len, cl, mm, sb, bn>>

\* a Buffer of length 1..MaxLen on one of the queues, and its first cmd()
InitEnt ==
    /\ buf_len \in 1..MaxLen
    /\ \E q \in Queues :
         /\ es = [buffer |-> Buffer_struct("mem", q, buf_len, "MEM_READ_WRITE"),
                  clone |-> None, sub |-> None, owner |-> "buffer",
                  installed |-> [who \in EntityNames |->
                                    IF who = "buffer" THEN Some(q) ELSE None]]
         /\ bc = new(q, "mem", buf_len)
    /\ phase = "config"
    /\ result = "none"
    /\ panicked = ""
    /\ submitted = <<>>
    /\ h = NoHistory
    /\ cl = NoCheck
    /\ mm = NoMapped
    /\ sb = NoSub
    /\ bn = NoBuf

NextEnt ==
    \/ Buffer_clone
    \/ \E origin \in Lens, size \in Lens : SubBuffer_created(origin, size)
    \/ \E who \in EntityNames, q \in Queues : set_default_queue(who, q)
    \/ \E who \in EntityNames : entity_cmd(who)
    \/ \E q \in Queues : queue(q)
    \/ \E n \in Lens : write(n)
    \/ \E l \in Opt(Lens) : fill(l)
    \/ enq

SpecEnt == InitEnt /\ [][NextEnt]_vars

----------------------------------------------------------------------------
(* Properties. *)

Selectors == {"read", "read_async", "write", "map", "copy", "copy_to_image",
              "gl_acquire", "gl_release", "fill"}

\* enq or enq_map has been called on the builder (it returned, or it panicked)
EnqCalled == h.entry # "none"

\* C1: check_len returns Ok iff offset < mem_len and data_len <= mem_len - offset;
\* it fails for every input with mem_len = 0 and for offset = mem_len with
\* data_len = 0; mem_len - offset is not evaluated when offset >= mem_len.
C1_CheckLenIff ==
    cl.ret # "none" =>
        /\ (cl.ret = "Ok") <=>
               (cl.offset < cl.mem_len /\ cl.data_len <= cl.mem_len - cl.offset)
        /\ cl.mem_len = 0 => cl.ret = "Err"
        /\ (cl.offset = cl.mem_len /\ cl.data_len = 0) => cl.ret = "Err"
        /\ cl.offset >= cl.mem_len => cl.sub = "skipped"

C1_Witness ==
    /\ cl.ret = "Err"
    /\ cl.mem_len > 0
    /\ cl.offset = cl.mem_len
    /\ cl.data_len = 0

\* C2: the second kind-selector call on a builder aborts, whichever two
\* selectors are called; the kind is assigned at most once per builder.
C2_KindSetOnce ==
    /\ h.kind_sets <= 1
    /\ h.selector_calls <= 2
    /\ h.selector_calls = 2 =>
           /\ phase = "aborted"
           /\ panicked \in Selectors
           /\ h.kind_sets = 1
    /\ ~is_unspec(bc.kind) <=> h.kind_sets = 1

C2_Witness ==
    /\ h.selector = "write"
    /\ panicked = "write"
    /\ bc.queue = "q1"

\* the call made on the builder fails one of the local validations of enq/enq_map:
\* unset kind, wrong entry point, out-of-range offset/length, rectangular fill,
\* rectangular map, rectangular copy with dst_offset or len given
FailsLocalValidation ==
    LET k == bc.kind
        s == bc.shape
        L == IF k.tag \in {"Read", "Write"} THEN k.data_len
             ELSE IF k.tag \in {"Copy", "Fill", "Map"} THEN unwrap_or(k.len, bc.mem_len)
             ELSE 0
    IN \/ k.tag = "Unspecified"
       \/ h.entry = "enq" /\ k.tag = "Map"
       \/ h.entry = "enq_map" /\ k.tag # "Map"
       \/ /\ s.tag = "Lin"
          /\ k.tag \in {"Read", "Write", "Copy", "Fill", "Map"}
          /\ ~(s.offset < bc.mem_len /\ L <= bc.mem_len - s.offset)
       \/ s.tag = "Rect" /\ k.tag \in {"Fill", "Map"}
       \/ s.tag = "Rect" /\ k.tag = "Copy" /\ (is_some(k.dst_offset) \/ is_some(k.len))

\* C3: one call of enq or enq_map submits at most one command: exactly one when
\* the call passes local validation, none when it returns a local validation error.
C3_ExactlyOneRequest ==
    EnqCalled =>
        /\ Len(submitted) <= 1
        /\ result = "ErrLocal" => Len(submitted) = 0
        /\ ~FailsLocalValidation => Len(submitted) = 1

\* C4: enq on a builder whose kind was set by a selector returns a result
\* (Ok or a recoverable Err); it never aborts the process.
C4_EnqReturns ==
    (h.entry = "enq" /\ h.selector \in Selectors) =>
        /\ phase = "done"
        /\ result \in {"Ok", "ErrLocal", "ErrRuntime"}

\* C5: enq on an Unspecified or Map builder, and enq_map on an Unspecified or
\* non-Map builder, return a (local) error, submit nothing and do not panic.
C5_MismatchIsErr ==
    (\/ h.entry = "enq" /\ bc.kind.tag \in {"Unspecified", "Map"}
     \/ h.entry = "enq_map" /\ bc.kind.tag # "Map") =>
        /\ phase = "done"
        /\ result = "ErrLocal"
        /\ panicked = ""
        /\ submitted = <<>>

C5_Witness ==
    /\ h.entry = "enq_map"
    /\ bc.kind.tag = "Write"
    /\ bc.shape.tag = "Rect"
    /\ bc.queue = "q1"
    /\ ~bc.block
    /\ is_some(bc.ewait)
    /\ is_some(bc.enew)
    /\ result = "ErrLocal"

RightEntry ==
    \/ h.entry = "enq" /\ bc.kind.tag \in {"Read", "Write", "Copy", "Fill"}
    \/ h.entry = "enq_map" /\ bc.kind.tag = "Map"

\* C7: a linear builder with offset o submits iff check_len(mem_len, L, o)
\* succeeds, L being the slice length for read/write and len.unwrap_or(mem_len)
\* for copy, fill and map; the request carries offset o and length L, and for a
\* copy the destination offset dst_offset.unwrap_or(0).
C7_LinearSubmitIffCheckLen ==
    (RightEntry /\ bc.shape.tag = "Lin") =>
        LET k == bc.kind
            o == bc.shape.offset
            L == IF k.tag \in {"Read", "Write"} THEN k.data_len
                 ELSE unwrap_or(k.len, bc.mem_len)
        IN /\ Len(submitted) = 1 <=> check_len(bc.mem_len, L, o).ok
           /\ Len(submitted) = 0 <=> ~check_len(bc.mem_len, L, o).ok
           /\ Len(submitted) = 0 <=> result = "ErrLocal"
           /\ Len(submitted) = 1 =>
                  /\ submitted[1].offset = Some(o)
                  /\ submitted[1].len = Some(L)
                  /\ submitted[1].obj_core = bc.obj_core
                  /\ k.tag = "Copy" =>
                         submitted[1].dst_offset = Some(unwrap_or(k.dst_offset, 0))

C7_Witness ==
    /\ h.entry = "enq"
    /\ bc.kind.tag = "Copy"
    /\ bc.kind.len = None
    /\ bc.kind.dst_offset = Some(1)
    /\ bc.shape = Lin(0)
    /\ bc.mem_len = MaxLen
    /\ Len(submitted) = 1
    /\ submitted[1].len = Some(MaxLen)
    /\ submitted[1].dst_offset = Some(1)

ReadOps == {"read_buffer", "read_buffer_rect"}

\* C8: after read(), block(false) aborts; lock_block implies block in every
\* state; every read submitted from a builder configured via read() is blocking.
C8_BlockLocked ==
    /\ [](bc.lock_block => bc.block)
    /\ [](\A i \in 1..Len(submitted) :
            (h.selector = "read" /\ submitted[i].op \in ReadOps) =>
                submitted[i].block = Some(TRUE))
    /\ [][(h.selector = "read" /\ block(FALSE)) =>
            (phase' = "aborted" /\ panicked' = "block" /\ bc' = bc)]_vars

C8_Witness ==
    /\ h.selector = "read"
    /\ panicked = "block"
    /\ bc.block
    /\ bc.lock_block

\* C9: a fresh builder on which only read_async(dst) is called, and no block(..),
\* submits its read with blocking = false.
C9_ReadAsyncNonBlocking ==
    (/\ h.selector = "read_async"
     /\ ~h.block_called
     /\ Len(submitted) = 1) =>
        submitted[1].block = Some(FALSE)

----------------------------------------------------------------------------
(* SubBuffer::new and Buffer::new.                                         *)

\* the call SubBuffer::new has returned or panicked
SubBufferCalled == sb.ret # "none"

\* The outcome SubBuffer::new must have by its contract, the sum taken in
\* the integers.
RegionOutcome ==
    IF sb.origin_len + sb.size_len > sb.buffer_len
    THEN sb.ret = "Err" /\ sb.region = None /\ sb.sub = None
    ELSE /\ sb.region = Some([origin |-> sb.origin_len, size |-> sb.size_len])
         /\ sb.ret \in {"Ok", "ErrRuntime"}
         /\ sb.ret = "Ok" =>
              /\ sb.sub # None
              /\ sb.sub[1].len = sb.size_len
              /\ sb.sub[1].origin = sb.origin_len
              /\ sb.sub[1].origin + sb.sub[1].len <= sb.buffer_len

\* C11: SubBuffer::new returns an error, without panicking and without
\* creating a handle, when origin + size > buffer length; otherwise it
\* reaches the runtime and, when the runtime accepts, returns a sub-buffer of
\* length size at the given origin with origin + len <= buffer length.
C11_RegionChecked == SubBufferCalled => RegionOutcome

\* The same contract restricted to the calls whose origin + size is
\* representable in usize: it holds there.
RegionCheckedNoOverflow ==
    (SubBufferCalled /\ ~usize_add(sb.origin_len, sb.size_len).overflow) => RegionOutcome

\* Buffer::new(queue, flags, dims, None) has returned Ok
ZeroedBufferReturned == bn.pc = "returned" /\ bn.ret = "Ok" /\ ~bn.data

\* C12: after Buffer::new(.., None) returned Ok for a length N >= 1, a read of
\* the whole buffer through the default queue returns N zeros, under the
\* fill strategy and under the host-staged write strategy.
C12_ReadBackZeros ==
    (ZeroedBufferReturned /\ bn.len >= 1 /\ bn.read # None) => bn.read = Some(Zeros(bn.len))

\* The same statement restricted to an in-order default queue: it holds there.
ReadBackZerosInOrder ==
    (ZeroedBufferReturned /\ bn.in_order /\ bn.len >= 1 /\ bn.read # None)
        => bn.read = Some(Zeros(bn.len))

\* C13: at the moment Buffer::new(.., None) returns Ok the zeroing command has
\* completed on the device under both strategies: nothing is pending and the
\* buffer is all-zero.
C13_ZeroedOnReturn ==
    [][ (Buffer_new /\ bn'.ret = "Ok" /\ ~bn.data)
            => (bn'.pending = <<>> /\ bn'.mem = Zeros(bn.len)) ]_vars

----------------------------------------------------------------------------
(* MappedMem. *)

\* unmap_later was never called on the value
NeverDeferred == mm.delayed_unmap = DelayedNone

\* C14: a MappedMem on which unmap_later was never called is released when it
\* goes out of scope: one unmap request is issued and it succeeds.
C14_DropReleasesUndeferred ==
    (mm.scope = "dropped" /\ NeverDeferred)
        => (mm.n_req = 1 /\ mm.n_ok = 1 /\ mm.is_unmapped)

\* C15: with a delayed unmap configured, an explicit unmap() that succeeds
\* marks the value unmapped; a value once unmapped stays so, and every
\* explicit unmap() on it returns Err, without a panic and without a request.
C15_SecondUnmapIsErr ==
    /\ [][ (unmap /\ ~NeverDeferred /\ ~mm.is_unmapped /\ mm'.ret = "Ok")
               => (mm'.is_unmapped /\ mm'.n_req = mm.n_req + 1) ]_vars
    /\ [][ mm.is_unmapped => mm'.is_unmapped ]_vars
    /\ [][ (unmap /\ mm.is_unmapped)
               => /\ mm'.ret = "Err"
                  /\ mm'.scope = "live"
                  /\ mm'.panicked = ""
                  /\ mm'.n_req = mm.n_req ]_vars

\* a first unmap() succeeded and a later unmap() returned Err
C15_Witness ==
    /\ mm.scope = "live"
    /\ mm.last.op = "unmap"
    /\ mm.ret = "Err"
    /\ mm.is_unmapped
    /\ ~NeverDeferred
    /\ mm.n_req = 1
    /\ mm.n_ok = 1

\* C16: at most one unmap request ever succeeds, and once the value is
\* unmapped no call (unmap, drop, unmap_later followed by drop) issues a
\* further request.
C16_AtMostOneRelease ==
    /\ [](mm.n_ok <= 1)
    /\ [][ mm.is_unmapped => mm'.n_req = mm.n_req ]_vars

\* released by unmap(), given another delayed unmap afterwards, then dropped
C16_Witness ==
    /\ mm.scope = "dropped"
    /\ mm.is_unmapped
    /\ mm.n_req = 1
    /\ mm.n_ok = 1
    /\ mm.last_req # mm.delayed_unmap

\* C17: when the scope of a MappedMem has ended the value has been released
\* exactly once, and every unmap request carries the parameters configured
\* last before it.
C17_ReleasedByScopeEnd ==
    /\ [](mm.scope = "dropped" => (mm.n_ok = 1 /\ mm.is_unmapped))
    /\ [][ mm'.n_req # mm.n_req => mm'.last_req = mm.delayed_unmap ]_vars

\* C18 as stated: set_unmap_events(w, e) after unmap_later leaves the captured
\* wait list equal to w and the captured event equal to e, for every w and e.
C18_OverwritesBoth ==
    [][ \A w \in Opt(UnmapWaitLists), e \in Opt(UnmapEvents) :
          (set_unmap_events(w, e) /\ mm'.scope = "live")
              => /\ mm'.delayed_unmap[1].ewait = w
                 /\ mm'.delayed_unmap[1].enew = e ]_vars

\* C18: set_unmap_events(w, e) after unmap_later replaces the captured wait
\* list when w is Some and the captured event when e is Some; a field whose
\* argument is None keeps its value, and queue and mem are left untouched.
C18_UpdatesGiven ==
    [][ \A w \in Opt(UnmapWaitLists), e \in Opt(UnmapEvents) :
          (set_unmap_events(w, e) /\ mm'.scope = "live")
              => /\ ~NeverDeferred
                 /\ mm'.delayed_unmap[1].ewait
                        = IF is_some(w) THEN w ELSE mm.delayed_unmap[1].ewait
                 /\ mm'.delayed_unmap[1].enew
                        = IF is_some(e) THEN e ELSE mm.delayed_unmap[1].enew
                 /\ mm'.delayed_unmap[1].queue = mm.delayed_unmap[1].queue
                 /\ mm'.delayed_unmap[1].mem = mm.delayed_unmap[1].mem ]_vars

\* set_unmap_events(None, Some("ev2")) was accepted: the wait list captured
\* before is kept and the event is replaced
C18_Witness ==
    /\ mm.scope = "live"
    /\ mm.last = [op |-> "set_unmap_events", w |-> None, e |-> Some("ev2")]
    /\ ~NeverDeferred
    /\ mm.delayed_unmap[1].ewait = Some("wl")
    /\ mm.delayed_unmap[1].enew = Some("ev2")

\* C19: unmap() on a value that is not unmapped and has no delayed unmap
\* returns Err, issues no request and changes neither is_unmapped nor the
\* (absent) delayed unmap.
C19_UnmapWithoutPolicy ==
    [][ (unmap /\ ~mm.is_unmapped /\ NeverDeferred)
            => /\ mm'.ret = "Err"
               /\ mm'.n_req = mm.n_req
               /\ ~mm'.is_unmapped
               /\ mm'.delayed_unmap = DelayedNone
               /\ mm'.scope = "live" ]_vars

\* unmap() returned Err on a mapped value without a delayed unmap
C19_Witness ==
    /\ mm.scope = "live"
    /\ mm.last.op = "unmap"
    /\ mm.ret = "Err"
    /\ ~mm.is_unmapped
    /\ NeverDeferred
    /\ mm.n_req = 0

\* C20: on a value that is not unmapped, drop does what unmap() does: with a
\* delayed unmap it issues the request with the captured queue, mem, wait list
\* and event; and wherever unmap() returns Err (the request fails, or there is
\* no delayed unmap) drop aborts the process.
C20_DropAsUnmap ==
    [][ (drop /\ ~mm.is_unmapped)
            => IF NeverDeferred
               THEN mm'.scope = "aborted" /\ mm'.n_req = mm.n_req
               ELSE /\ mm'.n_req = mm.n_req + 1
                    /\ mm'.last_req = mm.delayed_unmap
                    /\ (mm'.scope = "aborted") = ~mm'.is_unmapped ]_vars

----------------------------------------------------------------------------
(* Buffer, SubBuffer and the builders they make. *)

\* the requests the step hands to the core
NewRequests == {submitted'[i] : i \in (Len(submitted) + 1)..Len(submitted')}

\* the other entities are, after the step, what they were before it
OthersKept(who) ==
    \A other \in EntityNames \ {who} :
        /\ Exists(other) => EntityOf(es', other) = Entity(other)
        /\ ~Exists(other) => es' [other] = None

\* C21: queue(q) binds the live builder to q and touches no entity; the
\* builder's queue changes by no other call; enq submits on the builder's
\* queue and touches no entity; the next cmd() of an entity is bound to the
\* queue installed on that entity, whatever the previous builder was given.
C21_QueueForOneCommand ==
    /\ [][ \A q \in Queues : queue(q) => (bc'.queue = q /\ es' = es) ]_vars
    /\ [][ (phase = "config" /\ phase' = "config" /\ bc'.queue # bc.queue)
               => \E q \in Queues : queue(q) ]_vars
    /\ [][ enq => (es' = es /\ \A r \in NewRequests : r.queue = bc.queue) ]_vars
    /\ [][ \A who \in EntityNames :
             entity_cmd(who)
                 => /\ bc'.queue = es.installed[who][1]
                    /\ es'.buffer = es.buffer /\ es'.clone = es.clone /\ es'.sub = es.sub
          ]_vars

\* a command was submitted on a queue other than the default queue of the
\* entity that made its builder
C21_Witness ==
    /\ phase = "done"
    /\ result = "Ok"
    /\ Len(submitted) = 1
    /\ submitted[1].queue # Entity(es.owner).queue
    /\ es.installed[es.owner] = Some(Entity(es.owner).queue)

\* C26: a SubBuffer is created with its parent's default queue;
\* set_default_queue on one entity replaces that entity's queue only: the
\* other entities (parent, clone, SubBuffer) keep theirs, and the entity
\* keeps its length, dims, origin, flags and memory handle.
C26_IndependentQueues ==
    /\ [][ \A origin \in Lens, size \in Lens :
             SubBuffer_created(origin, size)
                 => /\ es'.sub[1].queue = es.buffer.queue
                    /\ es'.buffer = es.buffer /\ es'.clone = es.clone ]_vars
    /\ [][ \A who \in EntityNames, q \in Queues :
             set_default_queue(who, q)
                 => /\ EntityOf(es', who) = [Entity(who) EXCEPT !.queue = q]
                    /\ OthersKept(who) ]_vars

\* the SubBuffer and the clone have a default queue other than the Buffer's
C26_Witness ==
    /\ es.sub # None
    /\ es.clone # None
    /\ es.sub[1].queue # es.buffer.queue
    /\ es.clone[1].queue # es.buffer.queue
    /\ es.installed["sub"] = Some(es.sub[1].queue)

\* the memory handle and the length an entity was constructed with
OwnHandle(who) == IF who = "sub" THEN "sub_mem" ELSE "mem"
OwnLen(who) == IF who = "sub" THEN to_len(es.sub[1].size) ELSE buf_len

\* C27: cmd() returns a builder in the default state, bound to the entity's
\* own memory handle, the length it was constructed with, and the queue
\* installed on it last.
C27_CmdIsDefault ==
    [][ \A who \in EntityNames :
          entity_cmd(who)
              => bc' = [queue |-> es.installed[who][1], obj_core |-> OwnHandle(who),
                        block |-> TRUE, lock_block |-> FALSE, kind |-> Unspecified,
                        shape |-> Lin(0), ewait |-> None, enew |-> None,
                        mem_len |-> OwnLen(who)] ]_vars

\* a fresh builder of the SubBuffer, whose queue and length are not the Buffer's
C27_Witness ==
    /\ phase = "config"
    /\ es.owner = "sub"
    /\ bc = new(es.sub[1].queue, "sub_mem", es.sub[1].len)
    /\ bc.queue # es.buffer.queue
    /\ bc.mem_len # es.buffer.len

----------------------------------------------------------------------------
(* Buffer::new: the strategy the build feature selects. *)

\* C22: with the feature "buffer_no_fill" enabled Buffer::new(.., None)
\* zeroes by a host-staged write and issues no fill; with the feature
\* disabled it zeroes by a device-side fill.
C22_FeatureSelectsWrite ==
    (bn.pc = "returned" /\ bn.strategy # "none")
        => /\ bn.strategy = (IF bn.feature THEN "write" ELSE "fill")
           /\ bn.feature => \A i \in 1..Len(bn.pending) : bn.pending[i].op # "fill_buffer"

----------------------------------------------------------------------------
(* MappedMem: the delayed unmap. *)

\* the completion event of the map command that produced the MappedMem
MapEvent == "map_event"

\* the events an unmap request waits on: those of the caller's wait list
\* (named after the list; the caller's lists do not hold the map event)
WaitedOn(ewait_) == IF ewait_ = None THEN {} ELSE {ewait_[1]}

\* C23: the wait list captured by unmap_later holds the map event, and so
\* every unmap request issued by unmap() or drop waits on it, also when the
\* caller passed wait_list = None.
C23_WaitsOnMapEvent ==
    /\ ~NeverDeferred => MapEvent \in WaitedOn(mm.delayed_unmap[1].ewait)
    /\ mm.last_req # None => MapEvent \in WaitedOn(mm.last_req[1].ewait)

\* C24: set_unmap_events leaves the captured queue and mem as they are; on
\* a value without a delayed unmap it panics, and is_unmapped and the
\* (absent) delayed unmap are left as they are.
C24_QueueAndMemKept ==
    [][ \A w \in Opt(UnmapWaitLists), e \in Opt(UnmapEvents) :
          set_unmap_events(w, e)
              => IF NeverDeferred
                 THEN /\ mm'.scope = "aborted"
                      /\ mm'.panicked = "set_unmap_events"
                      /\ mm'.delayed_unmap = DelayedNone
                      /\ mm'.is_unmapped = mm.is_unmapped
                 ELSE /\ mm'.delayed_unmap # DelayedNone
                      /\ mm'.delayed_unmap[1].queue = mm.delayed_unmap[1].queue
                      /\ mm'.delayed_unmap[1].mem = mm.delayed_unmap[1].mem ]_vars

\* set_unmap_events panicked on a mapped value without a delayed unmap
C24_Witness ==
    /\ mm.scope = "aborted"
    /\ mm.panicked = "set_unmap_events"
    /\ mm.last.op = "set_unmap_events"
    /\ NeverDeferred
    /\ ~mm.is_unmapped

----------------------------------------------------------------------------
(* SubBuffer::new: machine arithmetic. *)

\* C28: a region whose true sum origin_len + size_len exceeds buffer_len is
\* rejected with an error and never reaches the creation of the handle,
\* also when the true sum exceeds UsizeMax.
C28_BoundExact ==
    (SubBufferCalled /\ sb.origin_len + sb.size_len > sb.buffer_len)
        => (sb.ret = "Err" /\ sb.region = None)

----------------------------------------------------------------------------
(* BufferCmd: what each call assigns. *)

\* the fields of the builder the step changes
Changed == {f \in DOMAIN bc : bc'[f] # bc[f]}

\* a kind selector other than read
OtherSelector ==
    \/ \E n \in Lens : read_async(n) \/ write(n)
    \/ \E f \in Opt(MapFlagsSet), l \in Opt(Lens) : map(f, l)
    \/ \E d \in Opt(0..MaxDst), l \in Opt(Lens) : copy(d, l)
    \/ copy_to_image
    \/ gl_acquire
    \/ gl_release
    \/ \E l \in Opt(Lens) : fill(l)

\* every configuration call but the kind selectors changes its own field only
NonSelectorsChangeOne ==
    /\ (\E q \in Queues : queue(q)) => Changed \subseteq {"queue"}
    /\ (\E b \in BOOLEAN : block(b)) => Changed \subseteq {"block"}
    /\ (\E n \in Lens : offset(n)) => Changed \subseteq {"shape"}
    /\ (\E r \in RectArgs : rect(r)) => Changed \subseteq {"shape"}
    /\ (\E w \in WaitLists : ewait(w)) => Changed \subseteq {"ewait"}
    /\ (\E o \in Opt(WaitLists) : ewait_opt(o)) => Changed \subseteq {"ewait"}
    /\ (\E e \in EventSlots : enew(e)) => Changed \subseteq {"enew"}
    /\ (\E o \in Opt(EventSlots) : enew_opt(o)) => Changed \subseteq {"enew"}

\* C25 as stated: each configuration call changes one facet of the builder:
\* queue the queue, block the block flag, offset and rect the shape, every
\* kind selector the kind, ewait/ewait_opt the wait list, enew/enew_opt the
\* event slot.
C25_OneFacetEach ==
    [][ /\ NonSelectorsChangeOne
        /\ OtherSelector => Changed \subseteq {"kind"}
        /\ (\E n \in Lens : read(n)) => Changed \subseteq {"kind"} ]_vars

\* C25: as stated for every call but read; read assigns the kind and also
\* sets block and lock_block to true, and changes nothing else.
C25_OneFacetButRead ==
    [][ /\ NonSelectorsChangeOne
        /\ OtherSelector => Changed \subseteq {"kind"}
        /\ (\E n \in Lens : read(n))
              => /\ Changed \subseteq {"kind", "block", "lock_block"}
                 /\ phase' = "config" => (bc'.block /\ bc'.lock_block) ]_vars

\* read was accepted on a builder whose wait list, event slot, queue and
\* shape had been set, and block had been called
C25_Witness ==
    /\ phase = "config"
    /\ h.selector = "read"
    /\ h.block_called
    /\ bc.block /\ bc.lock_block
    /\ bc.queue # DefaultQueue
    /\ bc.ewait # None
    /\ bc.enew # None
    /\ bc.shape # Lin(0)

\* a linear copy, fill or map with len left unset is being enqueued
DefaultLenEnqueue ==
    /\ bc.shape.tag = "Lin"
    /\ \/ enq /\ bc.kind.tag \in {"Copy", "Fill"} /\ bc.kind.len = None
       \/ enq_map /\ bc.kind.tag = "Map" /\ bc.kind.len = None

\* C29: a linear copy, fill or map with len left unset is submitted exactly
\* when offset = 0 and mem_len > 0; otherwise the call returns an error and
\* nothing is submitted.
C29_DefaultLenNeedsOffsetZero ==
    [][ DefaultLenEnqueue
            => IF bc.shape.offset = 0 /\ bc.mem_len > 0
               THEN /\ Len(submitted') = Len(submitted) + 1
                    /\ \A r \in NewRequests : r.len = Some(bc.mem_len)
               ELSE /\ submitted' = submitted
                    /\ result' = "ErrLocal" ]_vars

\* a fill with len unset and an offset inside the buffer was refused
C29_Witness ==
    /\ phase = "done"
    /\ result = "ErrLocal"
    /\ submitted = <<>>
    /\ bc.kind = Fill(None)
    /\ bc.shape.tag = "Lin"
    /\ bc.shape.offset > 0
    /\ bc.shape.offset < bc.mem_len

====
